---- MODULE Spec2Model ----
(***************************************************************************)
(* Model of src/0203JS/0204fetch5APIs.js: the bounded-concurrency          *)
(* dispatcher fetchWithConcurrency, the recursive retry executor           *)
(* fetchWithRetry and the simulated operation mockFetch, run on the        *)
(* JavaScript event loop (synchronous code runs to its next await, then    *)
(* the microtask queue is drained, then one timer fires).                  *)
(*                                                                         *)
(* Strings.  An error message is the sequence of its characters, so that   *)
(* String.prototype.includes is computed.  A template literal is the tuple *)
(* of its parts (the fixed text and the interpolated values).  The emoji   *)
(* of the source's literals are left out.                                  *)
(*                                                                         *)
(* Time.  The latency of mockFetch is random in the source; the model lets *)
(* pending timers fire in any order and records the length of each         *)
(* backoff wait.  mockFetch draws Math.random() when called and reads it   *)
(* only after its wait; the model draws the value where it is read.        *)
(*                                                                         *)
(* The module also models the Express middleware validateRequest           *)
(* (validate.middleware, src/unnamed/part_006) in front of a route         *)
(* handler; its state is kept apart from the dispatcher's.                 *)
(*                                                                         *)
(* Last, the module models debounce and throttle of                        *)
(* src/0203JS/0203Debounce.js, each wrapping a function func, with a clock *)
(* in ticks: a timer set by setTimeout(f, ms) runs when ms ticks or more   *)
(* have gone by, never sooner, and calls made at the tick on which a timer *)
(* is due run before or after it.                                          *)
(***************************************************************************)
EXTENDS Integers, Sequences, FiniteSets, TLC

\* Bounds of the model: the longest target list and the largest limit tried.
MaxTargets == 3
MaxLimit == 2
\* The longest target list of the calls that pass further arguments.
MaxArgTargets == 2
\* debounce and throttle: the last tick of the clock, the most calls made to
\* the wrapper, and the longest delay (or limit) given to it, in ticks.
MaxTime == 5
MaxCalls == 3
MaxDelay == 2

\* The target list of the main execution; a run takes a prefix of it.
apiUrls ==
    << "API-1 (User Profile)", "API-2 (Dashboard Stats)", "API-3 (Notifications)",
       "API-4 (Settings)", "API-5 (Friends List)" >>

\* fetchWithRetry(url, retries = 3, delay = 1000)
DefaultRetries == 3
DefaultDelay == 1000

\* mockFetch: Math.random() in hundredths; random < 0.2 throws 503,
\* random < 0.3 throws 404, anything else succeeds.
ServerErrorBelow == 20
NotFoundBelow == 30
RandomValues == {10, 25, 60}

Msg503 ==
    << "5", "0", "3", " ", "S", "e", "r", "v", "i", "c", "e", " ",
       "U", "n", "a", "v", "a", "i", "l", "a", "b", "l", "e" >>
Msg404 == << "4", "0", "4", " ", "N", "o", "t", " ", "F", "o", "u", "n", "d" >>

VARIABLES
    urls,         \* argument of fetchWithConcurrency: the targets, in input order
    limit,        \* argument of fetchWithConcurrency: the concurrency limit
    args,         \* the further actual arguments of the call, which the function
                  \* has no parameters for: << >> or << maxRetries, baseDelay >>
    pc,           \* position of fetchWithConcurrency: "loop" (running the for
                  \* statement), "race", "all" (suspended at an await),
                  \* "done" (returned results), "failed" (rejected)
    idx,          \* position in urls of the for loop's current target
    results,      \* the results array
    executing,    \* the executing array: the promises p, named by target position
    awaited,      \* the promises handed to the pending Promise.race / Promise.all
    phase,        \* per target, its fetchWithRetry chain: "idle", "fetch" (awaiting
                  \* mockFetch), "wait" (awaiting wait(delay)), "fulfilled", "rejected"
    retries,      \* per target, the retries parameter of the current call
    delay,        \* per target, the delay parameter of the current call
    outcome,      \* per target, the value or the error fetchWithRetry settled with
    p,            \* per target, the promise p: "none", "pending", "fulfilled", "rejected"
    microtasks,   \* the microtask queue: promise reactions waiting to run
    invocations,  \* per target, how many times mockFetch was called (history)
    attempts,     \* per target, the Math.random() of each finished mockFetch call (history)
    waits,        \* per target, the delays waited between attempts (history)
    schema,       \* validateRequest: the schema, per key the required field names
    req,          \* validateRequest: the request, per key the fields it carries
    nextCall,     \* validateRequest: how the middleware called next
    handlerRan,   \* validateRequest: the route handler behind the middleware ran
    now,          \* debounce / throttle: the clock, in ticks
    span,         \* the second argument of debounce (delay) or throttle (limit), in ticks
    timeouts,     \* the timers set by setTimeout and not yet run or cleared
    nextTimer,    \* the id that the next setTimeout returns
    timerId,      \* debounce: the closure's timerId; 0 is undefined
    inThrottle,   \* throttle: the closure's inThrottle: "undefined", "true", "false"
    called,       \* the calls made to the wrapper, with their tick and arguments (history)
    invoked       \* the calls made to func, with their tick and arguments (history)

\* The state of the dispatcher and the state of the middleware.
fetchVars ==
    << urls, limit, args, pc, idx, results, executing, awaited, phase, retries, delay,
       outcome, p, microtasks, invocations, attempts, waits >>

requestVars == << schema, req, nextCall, handlerRan >>

timerVars == << now, span, timeouts, nextTimer, timerId, inThrottle, called, invoked >>

vars == << fetchVars, requestVars, timerVars >>

Targets == 1..Len(urls)

----------------------------------------------------------------------------
\* Library functions, as JavaScript computes them.

Min(a, b) == IF a < b THEN a ELSE b
Max(a, b) == IF a > b THEN a ELSE b

\* String.prototype.includes
Includes(s, sub) ==
    \E i \in 1..(Len(s) - Len(sub) + 1) : SubSeq(s, i, i + Len(sub) - 1) = sub

\* Mutant of IndexOf: the element is never found.
IndexOfNotFound(arr, x) == -1

\* Array.prototype.indexOf: the 0-based position of the first x, or -1.
IndexOf(arr, x) ==
    IF \E i \in 1..Len(arr) : arr[i] = x
    THEN (CHOOSE i \in 1..Len(arr) : arr[i] = x /\ \A j \in 1..(i - 1) : arr[j] # x) - 1
    ELSE -1

\* Array.prototype.splice(start, 1): a negative start counts from the end.
Splice(arr, start) ==
    LET from == IF start < 0 THEN Max(Len(arr) + start, 0) ELSE Min(start, Len(arr))
    IN  SubSeq(arr, 1, from) \o SubSeq(arr, from + 2, Len(arr))

Range(arr) == {arr[i] : i \in 1..Len(arr)}

----------------------------------------------------------------------------
\* mockFetch: what the call settles with for a given Math.random().

ResponseData(url) == << "Response data from ", url >>

MockFetch(url, r) ==
    IF r < ServerErrorBelow THEN [threw |-> TRUE, payload |-> Msg503]
    ELSE IF r < NotFoundBelow THEN [threw |-> TRUE, payload |-> Msg404]
    ELSE [threw |-> FALSE, payload |-> ResponseData(url)]

----------------------------------------------------------------------------
\* fetchWithRetry

IsServerError(message) == Includes(message, << "5", "0" >>)

\* Mutants of ShouldRetry: one retry too many; every error retried.
ShouldRetryOffByOne(r, message) == r >= 0 /\ IsServerError(message)
ShouldRetryAnyError(r, message) == r > 0

ShouldRetry(r, message) == r > 0 /\ IsServerError(message)

\* Mutant of NextRetries: a retry costs two units of the budget.
NextRetriesTwoUnits(r) == r - 2

NextRetries(r) == r - 1

\* Mutants of NextDelay: linear growth; growth capped at twice the base.
NextDelayLinear(d) == d + DefaultDelay
NextDelayCapped(d) == Min(d * 2, 2 * DefaultDelay)

NextDelay(d) == d * 2

\* Mutant of FinalFailure: the url is left out of the message.
FinalFailureWithoutUrl(url, message) == << "Final Failure", "", ": ", message >>

FinalFailure(url, message) == << "Final Failure for ", url, ": ", message >>

\* Mutant of ReturnRecursive: the recursive call is awaited inside the try
\* block, so that the calling frame catches its error and wraps it again.
ReturnRecursiveRewraps(url, settlement) ==
    IF settlement.threw
    THEN [threw |-> TRUE, payload |-> FinalFailure(url, settlement.payload)]
    ELSE settlement

\* `return fetchWithRetry(url, retries - 1, delay * 2)` in the catch block,
\* outside the try: the calling frame settles as the recursive call did.
ReturnRecursive(url, settlement) == settlement

\* A settlement handed up through the frames of the recursion.
RECURSIVE Unwind(_, _, _)
Unwind(url, settlement, frames) ==
    IF frames = 0 THEN settlement
    ELSE Unwind(url, ReturnRecursive(url, settlement), frames - 1)

\* A call fetchWithRetry(urls[t], r, d): it runs up to `await mockFetch(url)`.
FetchWithRetryCall(t, r, d) ==
    /\ phase' = [phase EXCEPT ![t] = "fetch"]
    /\ retries' = [retries EXCEPT ![t] = r]
    /\ delay' = [delay EXCEPT ![t] = d]
    /\ invocations' = [invocations EXCEPT ![t] = @ + 1]

Job(kind, t, st) == [kind |-> kind, t |-> t, st |-> st]

\* No timer fires while synchronous code or a microtask is still to run.
EventLoopIdle == pc # "loop" /\ microtasks = << >>

\* Mutant of MockFetchSettles: a target that begins a backoff wait gives up
\* its place in the executing array, and a dispatcher suspended at the race
\* is resumed.
MockFetchSettlesYieldsSlot(t) ==
    /\ EventLoopIdle
    /\ phase[t] = "fetch"
    /\ \E rnd \in RandomValues : LET res == MockFetch(urls[t], rnd) IN
       /\ attempts' = [attempts EXCEPT ![t] = Append(@, rnd)]
       /\ IF ~res.threw
          THEN /\ phase' = [phase EXCEPT ![t] = "fulfilled"]
               /\ outcome' = [outcome EXCEPT ![t] = res.payload]
               /\ microtasks' = Append(microtasks, Job("then", t, "fulfilled"))
               /\ UNCHANGED << waits, executing >>
          ELSE IF ShouldRetry(retries[t], res.payload)
          THEN /\ phase' = [phase EXCEPT ![t] = "wait"]
               /\ waits' = [waits EXCEPT ![t] = Append(@, delay[t])]
               /\ executing' = Splice(executing, IndexOf(executing, t))
               /\ microtasks' =
                     IF pc = "race" THEN Append(microtasks, Job("resume", 0, "fulfilled"))
                     ELSE microtasks
               /\ UNCHANGED outcome
          ELSE /\ phase' = [phase EXCEPT ![t] = "rejected"]
               /\ outcome' = [outcome EXCEPT ![t] = FinalFailure(urls[t], res.payload)]
               /\ microtasks' = Append(microtasks, Job("catch", t, "rejected"))
               /\ UNCHANGED << waits, executing >>
    /\ UNCHANGED << urls, limit, pc, idx, results, awaited, retries,
                    delay, p, invocations >>

\* The timer of mockFetch fires: the call settles and fetchWithRetry resumes
\* after its await, in the try block (success) or in the catch block.  A
\* return or a throw of the call settles the frames that called it, one for
\* each backoff wait before it, and so the promise the dispatcher holds.
MockFetchSettles(t) ==
    /\ EventLoopIdle
    /\ phase[t] = "fetch"
    /\ \E rnd \in RandomValues : LET res == MockFetch(urls[t], rnd) IN
       /\ attempts' = [attempts EXCEPT ![t] = Append(@, rnd)]
       /\ IF ~res.threw
          THEN /\ phase' = [phase EXCEPT ![t] = "fulfilled"]
               /\ outcome' = [outcome EXCEPT ![t] =
                                 Unwind(urls[t], res, Len(waits[t])).payload]
               /\ microtasks' = Append(microtasks, Job("then", t, "fulfilled"))
               /\ waits' = waits
          ELSE IF ShouldRetry(retries[t], res.payload)
          THEN /\ phase' = [phase EXCEPT ![t] = "wait"]
               /\ waits' = [waits EXCEPT ![t] = Append(@, delay[t])]
               /\ UNCHANGED << outcome, microtasks >>
          ELSE /\ phase' = [phase EXCEPT ![t] = "rejected"]
               /\ outcome' = [outcome EXCEPT ![t] =
                                 Unwind(urls[t],
                                        [threw |-> TRUE,
                                         payload |-> FinalFailure(urls[t], res.payload)],
                                        Len(waits[t])).payload]
               /\ microtasks' = Append(microtasks, Job("catch", t, "rejected"))
               /\ waits' = waits
    /\ UNCHANGED << urls, limit, pc, idx, results, executing, awaited, retries,
                    delay, p, invocations >>

\* Mutant of BackoffElapsed: the retry executor takes the target's promise
\* out of the executing array when it calls again.
BackoffElapsedReleasesSlot(t) ==
    /\ EventLoopIdle
    /\ phase[t] = "wait"
    /\ FetchWithRetryCall(t, NextRetries(retries[t]), NextDelay(delay[t]))
    /\ executing' = Splice(executing, IndexOf(executing, t))
    /\ UNCHANGED << urls, limit, pc, idx, results, awaited, outcome, p,
                    microtasks, attempts, waits >>

\* The timer of wait(delay) fires: the recursive call.
BackoffElapsed(t) ==
    /\ EventLoopIdle
    /\ phase[t] = "wait"
    /\ FetchWithRetryCall(t, NextRetries(retries[t]), NextDelay(delay[t]))
    /\ UNCHANGED << urls, limit, pc, idx, results, executing, awaited, outcome, p,
                    microtasks, attempts, waits >>

----------------------------------------------------------------------------
\* fetchWithConcurrency

\* Mutant of AtLimit: the comparison off by one.
AtLimitOffByOne(len, lim) == len > lim

\* Mutant of AtLimit: the loop waits one promise short of the limit.
AtLimitEarly(len, lim) == len >= lim - 1

\* Mutant of AtLimit: the loop never waits.
AtLimitNever(len, lim) == FALSE

AtLimit(len, lim) == len >= lim

Settled(t) == p[t] \in {"fulfilled", "rejected"}

\* What follows `await Promise.race(arr)`: a resumption is queued as soon as
\* a member of arr is settled; over an empty arr it never is.
RaceReaction(arr, pOf) ==
    IF \E t \in Range(arr) : pOf[t] \in {"fulfilled", "rejected"}
    THEN LET first == CHOOSE t \in Range(arr) : pOf[t] \in {"fulfilled", "rejected"}
         IN  << Job("resume", 0, pOf[first]) >>
    ELSE << >>

\* What follows `await Promise.all(arr)`: rejected by the first rejection,
\* fulfilled once every member is (at once for an empty arr).
AllReaction(arr, pOf) ==
    IF \E t \in Range(arr) : pOf[t] = "rejected" THEN << Job("resume", 0, "rejected") >>
    ELSE IF \A t \in Range(arr) : pOf[t] = "fulfilled"
    THEN << Job("resume", 0, "fulfilled") >>
    ELSE << >>

\* Mutant of StartNext: the limit is tested, and the race awaited, before
\* the target is started and p pushed (idx is set back so that the
\* resumption returns to the same target).
StartNextTestsBeforePush ==
    /\ pc = "loop"
    /\ idx <= Len(urls)
    /\ IF AtLimit(Len(executing), limit)
       THEN /\ pc' = "race"
            /\ awaited' = executing
            /\ microtasks' = microtasks \o RaceReaction(executing, p)
            /\ idx' = idx - 1
            /\ UNCHANGED << executing, p, phase, retries, delay, invocations >>
       ELSE /\ FetchWithRetryCall(idx, DefaultRetries, DefaultDelay)
            /\ p' = [p EXCEPT ![idx] = "pending"]
            /\ executing' = Append(executing, idx)
            /\ idx' = idx + 1
            /\ UNCHANGED << pc, awaited, microtasks >>
    /\ UNCHANGED << urls, limit, results, outcome, attempts, waits >>

\* Mutant of StartNext: further arguments of the call are handed on to
\* fetchWithRetry as its retries and delay.
StartNextForwardsArgs ==
    /\ pc = "loop"
    /\ idx <= Len(urls)
    /\ IF args = << >>
       THEN FetchWithRetryCall(idx, DefaultRetries, DefaultDelay)
       ELSE FetchWithRetryCall(idx, args[1], args[2])
    /\ p' = [p EXCEPT ![idx] = "pending"]
    /\ executing' = Append(executing, idx)
    /\ IF AtLimit(Len(executing'), limit)
       THEN /\ pc' = "race"
            /\ awaited' = executing'
            /\ microtasks' = microtasks \o RaceReaction(executing', p')
            /\ idx' = idx
       ELSE /\ idx' = idx + 1
            /\ UNCHANGED << pc, awaited, microtasks >>
    /\ UNCHANGED << urls, limit, results, outcome, attempts, waits >>

\* Mutant of StartNext: the retries and the delay are shared by the targets;
\* a target takes up those the target before it has reached.
StartNextSharesBudget ==
    /\ pc = "loop"
    /\ idx <= Len(urls)
    /\ IF idx = 1
       THEN FetchWithRetryCall(idx, DefaultRetries, DefaultDelay)
       ELSE FetchWithRetryCall(idx, retries[idx - 1], delay[idx - 1])
    /\ p' = [p EXCEPT ![idx] = "pending"]
    /\ executing' = Append(executing, idx)
    /\ IF AtLimit(Len(executing'), limit)
       THEN /\ pc' = "race"
            /\ awaited' = executing'
            /\ microtasks' = microtasks \o RaceReaction(executing', p')
            /\ idx' = idx
       ELSE /\ idx' = idx + 1
            /\ UNCHANGED << pc, awaited, microtasks >>
    /\ UNCHANGED << urls, limit, results, outcome, attempts, waits >>

\* One iteration of the for loop: start the target's chain, push p, and
\* suspend at Promise.race when the limit is reached.
StartNext ==
    /\ pc = "loop"
    /\ idx <= Len(urls)
    /\ FetchWithRetryCall(idx, DefaultRetries, DefaultDelay)
    /\ p' = [p EXCEPT ![idx] = "pending"]
    /\ executing' = Append(executing, idx)
    /\ IF AtLimit(Len(executing'), limit)
       THEN /\ pc' = "race"
            /\ awaited' = executing'
            /\ microtasks' = microtasks \o RaceReaction(executing', p')
            /\ idx' = idx
       ELSE /\ idx' = idx + 1
            /\ UNCHANGED << pc, awaited, microtasks >>
    /\ UNCHANGED << urls, limit, results, outcome, attempts, waits >>

\* Mutant of DrainAll: results is returned without awaiting the trailing promises.
DrainAllSkipped ==
    /\ pc = "loop"
    /\ idx > Len(urls)
    /\ pc' = "done"
    /\ UNCHANGED << urls, limit, idx, results, executing, awaited, phase, retries,
                    delay, outcome, p, microtasks, invocations, attempts, waits >>

\* Mutant of DrainAll: the trailing promises are awaited with Promise.race.
DrainAllWithRace ==
    /\ pc = "loop"
    /\ idx > Len(urls)
    /\ pc' = "race"
    /\ awaited' = executing
    /\ microtasks' = microtasks \o RaceReaction(executing, p)
    /\ UNCHANGED << urls, limit, idx, results, executing, phase, retries, delay,
                    outcome, p, invocations, attempts, waits >>

\* After the loop: await Promise.all(executing).
DrainAll ==
    /\ pc = "loop"
    /\ idx > Len(urls)
    /\ pc' = "all"
    /\ awaited' = executing
    /\ microtasks' = microtasks \o AllReaction(executing, p)
    /\ UNCHANGED << urls, limit, idx, results, executing, phase, retries, delay, outcome, p, invocations, attempts, waits >>

\* Mutant of ThenJob: the callback throws after its push, so that the
\* .catch callback runs as well.
ThenJobThrowsAfterPush(t) ==
    /\ results' = Append(results, [status |-> "fulfilled", value |-> outcome[t]])
    /\ microtasks' = Append(Tail(microtasks), Job("catch", t, "rejected"))
    /\ UNCHANGED << urls, limit, pc, idx, executing, awaited, phase, retries, delay,
                    outcome, p, invocations, attempts, waits >>

\* Mutant of ThenJob: the entry is put at the front of results.
ThenJobUnshifts(t) ==
    /\ results' = << [status |-> "fulfilled", value |-> outcome[t]] >> \o results
    /\ microtasks' = Append(Tail(microtasks), Job("finally", t, "fulfilled"))
    /\ UNCHANGED << urls, limit, pc, idx, executing, awaited, phase, retries, delay,
                    outcome, p, invocations, attempts, waits >>

\* .then((data) => results.push({status: "fulfilled", value: data}))
ThenJob(t) ==
    /\ results' = Append(results, [status |-> "fulfilled", value |-> outcome[t]])
    /\ microtasks' = Append(Tail(microtasks), Job("finally", t, "fulfilled"))
    /\ UNCHANGED << urls, limit, pc, idx, executing, awaited, phase, retries, delay, outcome, p, invocations, attempts, waits >>

\* Mutant of CatchJob: the handler rethrows instead of recording.
CatchJobRethrows(t) ==
    /\ microtasks' = Append(Tail(microtasks), Job("finally", t, "rejected"))
    /\ UNCHANGED << urls, limit, pc, idx, results, executing, awaited, phase, retries,
                    delay, outcome, p, invocations, attempts, waits >>

\* Mutant of CatchJob: the handler only logs the error.
CatchJobOnlyLogs(t) ==
    /\ microtasks' = Append(Tail(microtasks), Job("finally", t, "fulfilled"))
    /\ UNCHANGED << urls, limit, pc, idx, results, executing, awaited, phase, retries,
                    delay, outcome, p, invocations, attempts, waits >>

\* .catch((err) => results.push({status: "rejected", reason: err.message}))
CatchJob(t) ==
    /\ results' = Append(results, [status |-> "rejected", reason |-> outcome[t]])
    /\ microtasks' = Append(Tail(microtasks), Job("finally", t, "fulfilled"))
    /\ UNCHANGED << urls, limit, pc, idx, executing, awaited, phase, retries, delay, outcome, p, invocations, attempts, waits >>

\* Mutant of FinallyJob: a pending race reacts only to the settlement of the
\* promise pushed last.
FinallyJobOnlyLastStarted(t, st) ==
    /\ executing' = Splice(executing, IndexOf(executing, t))
    /\ p' = [p EXCEPT ![t] = st]
    /\ microtasks' =
          Tail(microtasks) \o
          (IF pc = "race" /\ awaited # << >> /\ t = awaited[Len(awaited)]
           THEN << Job("resume", 0, st) >>
           ELSE IF pc = "all" THEN AllReaction(awaited, p')
           ELSE << >>)
    /\ UNCHANGED << urls, limit, pc, idx, results, awaited, phase, retries, delay,
                    outcome, invocations, attempts, waits >>

\* .finally(() => executing.splice(executing.indexOf(p), 1)); p then settles
\* as the chain before it did, and the pending race / all reacts.
FinallyJob(t, st) ==
    /\ executing' = Splice(executing, IndexOf(executing, t))
    /\ p' = [p EXCEPT ![t] = st]
    /\ microtasks' =
          Tail(microtasks) \o
          (IF pc = "race" /\ t \in Range(awaited) THEN << Job("resume", 0, st) >>
           ELSE IF pc = "all" THEN AllReaction(awaited, p')
           ELSE << >>)
    /\ UNCHANGED << urls, limit, pc, idx, results, awaited, phase, retries, delay, outcome, invocations, attempts, waits >>

\* Mutant of ResumeJob: after the race the loop takes the same target again.
ResumeJobSameTarget(st) ==
    /\ microtasks' = Tail(microtasks)
    /\ awaited' = << >>
    /\ IF st = "rejected" THEN pc' = "failed" /\ idx' = idx
       ELSE IF pc = "race" THEN pc' = "loop" /\ idx' = IF idx < Len(urls) THEN idx ELSE idx + 1
       ELSE pc' = "done" /\ idx' = idx
    /\ UNCHANGED << urls, limit, results, executing, phase, retries, delay,
                    outcome, p, invocations, attempts, waits >>

\* fetchWithConcurrency resumes after its await: a rejection is thrown out
\* of the function; otherwise the loop goes on, or results is returned.
ResumeJob(st) ==
    /\ microtasks' = Tail(microtasks)
    /\ awaited' = << >>
    /\ IF st = "rejected" THEN pc' = "failed" /\ idx' = idx
       ELSE IF pc = "race" THEN pc' = "loop" /\ idx' = idx + 1
       ELSE pc' = "done" /\ idx' = idx
    /\ UNCHANGED << urls, limit, results, executing, phase, retries, delay,
                    outcome, p, invocations, attempts, waits >>

\* The event loop runs the oldest microtask.
RunMicrotask ==
    /\ pc \in {"race", "all"}
    /\ microtasks # << >>
    /\ LET job == Head(microtasks) IN
          \/ job.kind = "then" /\ ThenJob(job.t)
          \/ job.kind = "catch" /\ CatchJob(job.t)
          \/ job.kind = "finally" /\ FinallyJob(job.t, job.st)
          \/ job.kind = "resume" /\ ResumeJob(job.st)

----------------------------------------------------------------------------
\* validateRequest (validate.middleware) and the route behind it.

Keys == << "body", "query", "params" >>
Fields == {"title", "status"}

\* Array.prototype.join(", ") over the parts of the messages.
RECURSIVE Join(_)
Join(parts) ==
    IF parts = << >> THEN << >>
    ELSE IF Len(parts) = 1 THEN << parts[1] >>
    ELSE << parts[1], ", " >> \o Join(Tail(parts))

\* The forEach over the keys: each round reads schema[key] and req[key] into
\* schemaFields and requestData and leaves errors as it was.
RECURSIVE CollectErrors(_, _, _, _)
CollectErrors(keys, sch, rq, errors) ==
    IF keys = << >> THEN errors
    ELSE LET schemaFields == sch[Head(keys)]
             requestData == rq[Head(keys)]
         IN  CollectErrors(Tail(keys), sch, rq, errors)

NotCalled == [how |-> "pending", statusCode |-> 0, code |-> "", message |-> << >>]

\* The middleware: next(err) when errors were collected, next() otherwise.
ValidateRequest ==
    /\ nextCall.how = "pending"
    /\ LET errors == CollectErrors(Keys, schema, req, << >>) IN
          nextCall' =
             IF Len(errors) > 0
             THEN [how |-> "error", statusCode |-> 400, code |-> "VALIDATION_ERROR",
                   message |-> Join(errors)]
             ELSE [how |-> "next", statusCode |-> 0, code |-> "", message |-> << >>]
    /\ UNCHANGED << schema, req, handlerRan >>

\* Express runs the route handler after next(); after next(err) it skips to
\* the error handlers.
RouteHandler ==
    /\ nextCall.how = "next"
    /\ ~handlerRan
    /\ handlerRan' = TRUE
    /\ UNCHANGED << schema, req, nextCall >>

\* No request is in progress.
NoRequest ==
    /\ schema = [key \in Range(Keys) |-> {}]
    /\ req = [key \in Range(Keys) |-> {}]
    /\ nextCall = NotCalled
    /\ handlerRan = FALSE

----------------------------------------------------------------------------
\* debounce and throttle (0203Debounce.js).

\* The arguments of a call to the wrapper: (...args) with one argument.
ArgValues == {"a", "b"}

\* `if (timerId)`: a timer id is truthy, undefined is not.
IsSet(id) == id # 0

\* `!inThrottle`: true of undefined and of false.
Not(flag) == flag \in {"undefined", "false"}

\* setTimeout(f, ms) by the call-th call to the wrapper: the timer is due
\* ms ticks from now.
SetTimeout(id, ms, call) == [id |-> id, due |-> now + ms, call |-> call]

\* clearTimeout(id): the timer with that id, if it is still pending, is dropped.
ClearTimeout(pending, id) == {tm \in pending : tm.id # id}

\* A call of func: func.apply(this, args) with the args of the call-th call
\* to the wrapper, made when `seen` calls to the wrapper have been made.
Invocation(call) ==
    [at |-> now, args |-> called[call].args, call |-> call, seen |-> Len(called)]

\* The clock moves on.  A timer that is due may still be pending: setTimeout
\* promises no more than that the callback does not run sooner.
Tick ==
    /\ now < MaxTime
    /\ now' = now + 1
    /\ UNCHANGED << span, timeouts, nextTimer, timerId, inThrottle, called, invoked >>

\* Mutant of DebouncedCall: the pending timer is not cleared.
DebouncedCallKeepsTimer(a) ==
    /\ Len(called) < MaxCalls
    /\ called' = Append(called, [at |-> now, args |-> << a >>])
    /\ timeouts' = timeouts \union {SetTimeout(nextTimer, span, Len(called'))}
    /\ timerId' = nextTimer
    /\ nextTimer' = nextTimer + 1
    /\ UNCHANGED << now, span, inThrottle, invoked >>

\* The function returned by debounce(func, delay), called with (a):
\* if (timerId) clearTimeout(timerId); timerId = setTimeout(..., delay).
DebouncedCall(a) ==
    /\ Len(called) < MaxCalls
    /\ called' = Append(called, [at |-> now, args |-> << a >>])
    /\ timeouts' =
          (IF IsSet(timerId) THEN ClearTimeout(timeouts, timerId) ELSE timeouts)
             \union {SetTimeout(nextTimer, span, Len(called'))}
    /\ timerId' = nextTimer
    /\ nextTimer' = nextTimer + 1
    /\ UNCHANGED << now, span, inThrottle, invoked >>

\* A timer of debounce runs: () => func.apply(this, args).
DebounceTimeout ==
    /\ \E tm \in timeouts :
          /\ tm.due <= now
          /\ timeouts' = timeouts \ {tm}
          /\ invoked' = Append(invoked, Invocation(tm.call))
    /\ UNCHANGED << now, span, nextTimer, timerId, inThrottle, called >>

\* Mutant of ThrottledCall: inThrottle is not tested.
ThrottledCallIgnoresWindow(a) ==
    /\ Len(called) < MaxCalls
    /\ called' = Append(called, [at |-> now, args |-> << a >>])
    /\ invoked' = Append(invoked, [at |-> now, args |-> << a >>, call |-> Len(called'),
                                   seen |-> Len(called')])
    /\ inThrottle' = "true"
    /\ timeouts' = timeouts \union {SetTimeout(nextTimer, span, Len(called'))}
    /\ nextTimer' = nextTimer + 1
    /\ UNCHANGED << now, span, timerId >>

\* The function returned by throttle(func, limit), called with (a):
\* if (!inThrottle) { func.apply(this, args); inThrottle = true;
\* setTimeout(() => (inThrottle = false), limit) }.
ThrottledCall(a) ==
    /\ Len(called) < MaxCalls
    /\ called' = Append(called, [at |-> now, args |-> << a >>])
    /\ IF Not(inThrottle)
       THEN /\ invoked' = Append(invoked, [at |-> now, args |-> << a >>,
                                           call |-> Len(called'), seen |-> Len(called')])
            /\ inThrottle' = "true"
            /\ timeouts' = timeouts \union {SetTimeout(nextTimer, span, Len(called'))}
            /\ nextTimer' = nextTimer + 1
       ELSE UNCHANGED << invoked, inThrottle, timeouts, nextTimer >>
    /\ UNCHANGED << now, span, timerId >>

\* The timer of throttle runs: () => (inThrottle = false).
ThrottleTimeout ==
    /\ \E tm \in timeouts :
          /\ tm.due <= now
          /\ timeouts' = timeouts \ {tm}
          /\ inThrottle' = "false"
    /\ UNCHANGED << now, span, nextTimer, timerId, called, invoked >>

\* A wrapper just returned by debounce or throttle, given `ms` ticks.
NewWrapper(ms) ==
    /\ now = 0
    /\ span \in ms
    /\ timeouts = {}
    /\ nextTimer = 1
    /\ timerId = 0
    /\ inThrottle = "undefined"
    /\ called = << >>
    /\ invoked = << >>

\* No wrapper is in use.
NoWrapper == NewWrapper({1})

----------------------------------------------------------------------------
\* A call fetchWithConcurrency(urls, limit, ...extra), about to enter its
\* loop, with the list length, the limit and the further arguments drawn
\* from the given sets.
FetchCall(lengths, limits, extras) ==
    /\ \E n \in lengths : urls = SubSeq(apiUrls, 1, n)
    /\ limit \in limits
    /\ args \in extras
    /\ pc = "loop"
    /\ idx = 1
    /\ results = << >>
    /\ executing = << >>
    /\ awaited = << >>
    /\ phase = [t \in Targets |-> "idle"]
    /\ retries = [t \in Targets |-> 0]
    /\ delay = [t \in Targets |-> 0]
    /\ outcome = [t \in Targets |-> << >>]
    /\ p = [t \in Targets |-> "none"]
    /\ microtasks = << >>
    /\ invocations = [t \in Targets |-> 0]
    /\ attempts = [t \in Targets |-> << >>]
    /\ waits = [t \in Targets |-> << >>]

\* The calls fetchWithConcurrency(urls, limit), as the main execution makes.
Init ==
    /\ FetchCall(0..MaxTargets, -1..MaxLimit, {<< >>})
    /\ NoRequest
    /\ NoWrapper

Next ==
    \/ StartNext /\ UNCHANGED << args, requestVars, timerVars >>
    \/ DrainAll /\ UNCHANGED << args, requestVars, timerVars >>
    \/ RunMicrotask /\ UNCHANGED << args, requestVars, timerVars >>
    \/ \E t \in Targets : MockFetchSettles(t) /\ UNCHANGED << args, requestVars, timerVars >>
    \/ \E t \in Targets : BackoffElapsed(t) /\ UNCHANGED << args, requestVars, timerVars >>

Spec == Init /\ [][Next]_vars

\* Calls that pass maxRetries and baseDelay after the limit.
ExtraArgs == {<< >>, << 1, 500 >>}

InitArgs ==
    /\ FetchCall(0..MaxArgTargets, 1..MaxLimit, ExtraArgs)
    /\ NoRequest
    /\ NoWrapper

SpecArgs == InitArgs /\ [][Next]_vars

\* A request to a route guarded by validateRequest(schema).
InitRequest ==
    /\ FetchCall({0}, {1}, {<< >>})
    /\ schema \in [Range(Keys) -> SUBSET Fields]
    /\ req \in [Range(Keys) -> SUBSET Fields]
    /\ nextCall = NotCalled
    /\ handlerRan = FALSE
    /\ NoWrapper

NextRequest ==
    \/ ValidateRequest /\ UNCHANGED << fetchVars, timerVars >>
    \/ RouteHandler /\ UNCHANGED << fetchVars, timerVars >>

SpecRequest == InitRequest /\ [][NextRequest]_vars

\* Calls to a debounced function.
InitDebounce ==
    /\ FetchCall({0}, {1}, {<< >>})
    /\ NoRequest
    /\ NewWrapper(1..MaxDelay)

NextDebounce ==
    \/ \E a \in ArgValues : DebouncedCall(a) /\ UNCHANGED << fetchVars, requestVars >>
    \/ DebounceTimeout /\ UNCHANGED << fetchVars, requestVars >>
    \/ Tick /\ UNCHANGED << fetchVars, requestVars >>

SpecDebounce == InitDebounce /\ [][NextDebounce]_vars

\* Calls to a throttled function.
InitThrottle ==
    /\ FetchCall({0}, {1}, {<< >>})
    /\ NoRequest
    /\ NewWrapper(1..MaxDelay)

NextThrottle ==
    \/ \E a \in ArgValues : ThrottledCall(a) /\ UNCHANGED << fetchVars, requestVars >>
    \/ ThrottleTimeout /\ UNCHANGED << fetchVars, requestVars >>
    \/ Tick /\ UNCHANGED << fetchVars, requestVars >>

SpecThrottle == InitThrottle /\ [][NextThrottle]_vars

----------------------------------------------------------------------------
\* Vocabulary of the properties.

\* Fairness of the code's scheduling: the event loop does not stop while
\* synchronous code, a microtask or a timer is pending.
Fairness == WF_vars(Next)

FairSpec == Spec /\ Fairness

\* The targets whose retry executor was started and has not settled.
Unsettled == {t \in Targets : phase[t] \in {"fetch", "wait"}}

\* The retry executor of t has settled.
ExecutorSettled(t) == phase[t] \in {"fulfilled", "rejected"}

\* The classes of a finished operation call, by what mockFetch gave for its
\* Math.random(): a value, the 503 error or the 404 error.
Succeeded(rnd) == ~MockFetch("", rnd).threw
Transient(rnd) == MockFetch("", rnd).threw /\ MockFetch("", rnd).payload = Msg503
Permanent(rnd) == MockFetch("", rnd).threw /\ MockFetch("", rnd).payload = Msg404

\* The target's url, as a results entry carries it.
EntryUrl(e) == IF e.status = "fulfilled" THEN e.value[2] ELSE e.reason[2]

EntriesOf(t) == {k \in 1..Len(results) : EntryUrl(results[k]) = urls[t]}

RECURSIVE SumSeq(_)
SumSeq(sq) == IF sq = << >> THEN 0 ELSE Head(sq) + SumSeq(Tail(sq))

\* The first k calls of t failed Transient (k = 0: none is required).
FirstTransient(t, k) ==
    /\ Len(attempts[t]) >= k
    /\ \A j \in 1..k : Transient(attempts[t][j])

----------------------------------------------------------------------------
\* C1: with 1 <= limit <= N, in every reachable state the number of targets
\* started and not yet settled, and the length of the executing array, are
\* at most limit.
C1_ActiveAtMostLimit ==
    (1 <= limit /\ limit <= Len(urls)) =>
        /\ Len(executing) <= limit
        /\ Cardinality(Unsettled) <= limit

\* C1 witness: a run of three targets with limit 2 is suspended with two
\* targets active and the third not yet started.
C1_Witness ==
    /\ limit = 2 /\ Len(urls) = 3
    /\ pc = "race" /\ Len(executing) = 2 /\ Cardinality(Unsettled) = 2
    /\ phase[3] = "idle"

\* C2: when the run resolves (limit >= 1), results has exactly N entries,
\* exactly one for each target.
C2_OneEntryPerTarget ==
    (pc = "done" /\ limit >= 1) =>
        /\ Len(results) = Len(urls)
        /\ \A t \in Targets : Cardinality(EntriesOf(t)) = 1

\* C2 witness: a resolved run of three targets with fulfilled and rejected entries.
C2_Witness ==
    /\ pc = "done" /\ limit >= 1 /\ Len(urls) = 3
    /\ \E j, k \in 1..Len(results) :
          results[j].status = "fulfilled" /\ results[k].status = "rejected"

\* C3: with limit < 1 the call fails with a configuration error before any
\* target is started: no operation is ever invoked and the dispatcher never
\* suspends or returns.
C3_FailFastOnBadLimit ==
    (limit < 1) =>
        /\ \A t \in Targets : invocations[t] = 0
        /\ pc \in {"loop", "failed"}

\* C4: with limit >= 1 the run never rejects, and a target whose executor
\* was rejected has a fulfilled p and its reason recorded as a rejected entry.
C4_NeverRejects ==
    (limit >= 1) =>
        /\ pc # "failed"
        /\ \A t \in Targets :
              (Settled(t) /\ phase[t] = "rejected") =>
                  /\ p[t] = "fulfilled"
                  /\ \E k \in 1..Len(results) :
                        /\ results[k].status = "rejected"
                        /\ results[k].reason = outcome[t]

\* C4 witness: a resolved run in which one target failed Permanent and
\* another exhausted its retries.
C4_Witness ==
    /\ pc = "done" /\ limit >= 1
    /\ \E t, u \in Targets :
          /\ phase[t] = "rejected" /\ Permanent(attempts[t][Len(attempts[t])])
          /\ phase[u] = "rejected" /\ Transient(attempts[u][Len(attempts[u])])

\* C6: when the run has resolved every target has been started, the
\* executing array is empty, and no operation call, backoff wait or
\* promise reaction is pending.
C6_ResolvesAfterAllSettled ==
    (pc = "done") =>
        /\ idx > Len(urls)
        /\ executing = << >>
        /\ microtasks = << >>
        /\ \A t \in Targets : ExecutorSettled(t) /\ Settled(t)

\* C6 witness: a resolved run of several concurrent targets, one of which
\* went through a backoff wait.
C6_Witness ==
    /\ pc = "done" /\ limit >= 2 /\ Len(urls) >= 2
    /\ \E t \in Targets : waits[t] # << >>

\* C5: under fairness of timers, microtasks and synchronous code, a run with
\* limit >= 1 eventually resolves.
C5_EventuallyResolves == (limit >= 1) ~> (pc = "done")

\* C5 witness: a run of three targets with limit >= 1 has resolved after
\* every target went through at least one backoff wait.
C5_Witness ==
    /\ pc = "done" /\ limit >= 1 /\ Len(urls) = 3
    /\ \A t \in Targets : waits[t] # << >>

\* C7: a target all of whose operation calls fail Transient settles only
\* after DefaultRetries + 1 calls and DefaultRetries backoff waits, and then
\* settles rejected.
C7_AlwaysTransientExhausts ==
    \A t \in Targets :
        (attempts[t] # << >> /\ FirstTransient(t, Len(attempts[t]))) =>
            /\ invocations[t] <= DefaultRetries + 1
            /\ ExecutorSettled(t) <=> (Len(attempts[t]) = DefaultRetries + 1)
            /\ ExecutorSettled(t) =>
                  /\ phase[t] = "rejected"
                  /\ invocations[t] = DefaultRetries + 1
                  /\ Len(waits[t]) = DefaultRetries
            /\ Settled(t) => \E k \in EntriesOf(t) : results[k].status = "rejected"

\* C7 witness: a target was called four times, each call failed Transient,
\* and its rejection is recorded.
C7_Witness ==
    \E t \in Targets :
        /\ Len(attempts[t]) = 4 /\ FirstTransient(t, 4) /\ invocations[t] = 4
        /\ Settled(t) /\ \E k \in EntriesOf(t) : results[k].status = "rejected"

\* C8: a target whose first operation call fails Permanent settles rejected
\* after that one call: no retry is consumed and no backoff wait occurs.
C8_PermanentFailsAtOnce ==
    \A t \in Targets :
        (attempts[t] # << >> /\ Permanent(attempts[t][1])) =>
            /\ phase[t] = "rejected"
            /\ invocations[t] = 1
            /\ Len(attempts[t]) = 1
            /\ retries[t] = DefaultRetries
            /\ waits[t] = << >>
            /\ Settled(t) => \E k \in EntriesOf(t) : results[k].status = "rejected"

\* C8 witness: a target failed Permanent on its first call and its
\* rejection is recorded.
C8_Witness ==
    \E t \in Targets :
        /\ Len(attempts[t]) = 1 /\ Permanent(attempts[t][1])
        /\ Settled(t) /\ \E k \in EntriesOf(t) : results[k].status = "rejected"

\* C9: the k-th backoff wait of a target lasts DefaultDelay * 2^(k-1): the
\* first lasts DefaultDelay, each later one twice the one before, uncapped.
C9_BackoffDoubles ==
    \A t \in Targets : \A k \in 1..Len(waits[t]) :
        /\ waits[t][k] = DefaultDelay * 2 ^ (k - 1)
        /\ k = 1 => waits[t][k] = DefaultDelay
        /\ k > 1 => waits[t][k] = 2 * waits[t][k - 1]

\* C9 witness: a target has waited 1000, 2000 and 4000 ms.
C9_Witness == \E t \in Targets : waits[t] = << 1000, 2000, 4000 >>

\* C10: a target whose operation fails Transient exactly k times
\* (k <= DefaultRetries) and then succeeds is fulfilled after k + 1 calls,
\* and its backoff waits sum to DefaultDelay * (2^k - 1).
C10_FulfilledAfterKFailures ==
    \A t \in Targets : \A k \in 0..DefaultRetries :
        (/\ Len(attempts[t]) = k + 1
         /\ FirstTransient(t, k)
         /\ Succeeded(attempts[t][k + 1])) =>
            /\ phase[t] = "fulfilled"
            /\ invocations[t] = k + 1
            /\ SumSeq(waits[t]) = DefaultDelay * (2 ^ k - 1)
            /\ Settled(t) => \E j \in EntriesOf(t) : results[j].status = "fulfilled"

\* C10 witness: a target failed Transient twice, succeeded on its third
\* call and waited 3000 ms in all; another succeeded after three failures.
C10_Witness ==
    /\ \E t \in Targets :
          /\ Len(attempts[t]) = 3 /\ FirstTransient(t, 2) /\ Succeeded(attempts[t][3])
          /\ SumSeq(waits[t]) = 3000 /\ Settled(t)
    /\ \E u \in Targets :
          /\ Len(attempts[u]) = 4 /\ FirstTransient(u, 3) /\ Succeeded(attempts[u][4])
          /\ SumSeq(waits[u]) = 7000

\* C11: in every reachable state each target has at most one entry in
\* results, and only once its retry executor has settled; an entry, once
\* pushed, is never changed, replaced or removed.
C11_OutcomeOnceAndImmutable ==
    /\ [](\A t \in Targets :
             /\ Cardinality(EntriesOf(t)) <= 1
             /\ EntriesOf(t) # {} => ExecutorSettled(t))
    /\ [][/\ Len(results') >= Len(results)
          /\ SubSeq(results', 1, Len(results)) = results]_vars

\* C11 witness: two outcomes are recorded while a third target is still
\* unsettled.
C11_Witness ==
    /\ Len(urls) = 3 /\ Len(results) = 2
    /\ \E t \in Targets : phase[t] \in {"fetch", "wait"}

\* C12: no target's operation is called more than DefaultRetries + 1 times,
\* and it is not called again once the target's retry executor has settled.
C12_AtMostFourCalls ==
    /\ [](\A t \in Targets : invocations[t] <= DefaultRetries + 1)
    /\ [][\A t \in Targets : ExecutorSettled(t) => invocations'[t] = invocations[t]]_vars

\* C12 witness: a target was called four times, the fourth call succeeded,
\* and the run went on to resolve.
C12_Witness ==
    /\ pc = "done"
    /\ \E t \in Targets : invocations[t] = 4 /\ phase[t] = "fulfilled"

\* C13: with limit >= 1 the first min(limit, N) targets are started before
\* the dispatcher first suspends, hence before any settlement, and the k-th
\* target (k > limit) is started only when at least k - limit of the targets
\* before it have settled.
C13_StartsGatedBySettlements ==
    (limit >= 1) =>
        /\ (pc # "loop" \/ \E t \in Targets : ExecutorSettled(t)) =>
              \A k \in 1..Min(limit, Len(urls)) : phase[k] # "idle"
        /\ \A k \in Targets :
              (k > limit /\ phase[k] # "idle") =>
                  Cardinality({j \in 1..(k - 1) : Settled(j)}) >= k - limit

\* C13 witness: of three targets with limit 2 the third has been started
\* after the second settled, the first being still active.
C13_Witness ==
    /\ limit = 2 /\ Len(urls) = 3
    /\ phase[3] = "fetch" /\ Settled(2) /\ p[1] = "pending"

\* C14: targets are started in input order and each once: a target is
\* started only after the one before it, its start pushes one promise for
\* it, and a started target is never started again (executing never holds
\* two promises of one target, a settled p never becomes pending, and every
\* later call of its operation follows a backoff wait).
C14_StartedInOrderOnce ==
    /\ [](\A t \in Targets : (t > 1 /\ phase[t] # "idle") => phase[t - 1] # "idle")
    /\ [](\A i, j \in 1..Len(executing) : i # j => executing[i] # executing[j])
    /\ [][\A t \in Targets :
             /\ (phase[t] = "idle" /\ phase'[t] # "idle") =>
                   executing' = Append(executing, t) /\ p'[t] = "pending"
             /\ (phase[t] # "idle") =>
                   /\ p[t] # "pending" => p'[t] # "pending"
                   /\ invocations'[t] # invocations[t] => phase[t] = "wait"]_vars

\* C14 witness: all three targets of a run with limit 1 have been started,
\* one after the other, each called once.
C14_Witness ==
    /\ limit = 1 /\ Len(urls) = 3
    /\ Settled(1) /\ Settled(2) /\ phase[3] = "fetch"
    /\ \A t \in Targets : invocations[t] = 1

Marker(reason) == << reason[1], reason[3] >>

\* The target was rejected after DefaultRetries + 1 Transient failures.
Exhausted(t) ==
    /\ phase[t] = "rejected"
    /\ Len(attempts[t]) = DefaultRetries + 1
    /\ FirstTransient(t, DefaultRetries + 1)

\* The target was rejected by a Permanent failure of its first call.
PermanentAtOnce(t) ==
    /\ phase[t] = "rejected"
    /\ Len(attempts[t]) = 1
    /\ Permanent(attempts[t][1])

\* C16: the reason recorded for a target that exhausted its retries says
\* that exhaustion occurred, apart from the underlying error it wraps: the
\* text around the url and the underlying message differs from that of the
\* reason recorded for a Permanent failure without retries.
C16_ReasonSignalsExhaustion ==
    \A t, u \in Targets : \A j \in EntriesOf(t) : \A k \in EntriesOf(u) :
        (limit >= 1 /\ Exhausted(t) /\ PermanentAtOnce(u)) =>
            Marker(results[j].reason) # Marker(results[k].reason)

\* C17: under fairness, with limit >= 1, every target of the input is
\* eventually started, settles and has its outcome recorded, whatever the
\* other targets do.
C17_EveryTargetReachesOutcome ==
    \A t \in 1..MaxTargets :
        (limit >= 1 /\ t \in Targets) ~> (t \in Targets /\ Settled(t) /\ EntriesOf(t) # {})

\* C17 witness: the first two targets were rejected, and the third was
\* started after them, was fulfilled and is recorded.
C17_Witness ==
    /\ limit >= 1 /\ Len(urls) = 3
    /\ phase[1] = "rejected" /\ phase[2] = "rejected" /\ Settled(1) /\ Settled(2)
    /\ phase[3] = "fulfilled" /\ Settled(3)
    /\ \E k \in EntriesOf(3) : k = 3 /\ results[k].status = "fulfilled"

\* The maxRetries and baseDelay a call asks for: its further arguments, or
\* 3 and 1000 when it passes none.
AskedRetries == IF args = << >> THEN 3 ELSE args[1]
AskedDelay == IF args = << >> THEN 1000 ELSE args[2]

\* The target has finished at least one call and every call failed Transient.
AlwaysTransient(t) == attempts[t] # << >> /\ FirstTransient(t, Len(attempts[t]))

\* C18 as stated: the further arguments maxRetries = m and baseDelay = d
\* govern the retry executors: an always-Transient target is called exactly
\* m + 1 times and its first backoff wait lasts d.
C18_ArgumentsGovernRetries ==
    \A t \in Targets :
        AlwaysTransient(t) =>
            /\ invocations[t] <= AskedRetries + 1
            /\ ExecutorSettled(t) => invocations[t] = AskedRetries + 1
            /\ waits[t] # << >> => waits[t][1] = AskedDelay

\* C18 as amended: whatever further arguments the call passes, an
\* always-Transient target is called exactly DefaultRetries + 1 times and
\* its first backoff wait lasts DefaultDelay.
C18_DefaultsGovernRetries ==
    \A t \in Targets :
        AlwaysTransient(t) =>
            /\ invocations[t] <= DefaultRetries + 1
            /\ ExecutorSettled(t) => invocations[t] = DefaultRetries + 1
            /\ waits[t] # << >> => waits[t][1] = DefaultDelay

\* C18 witness: a call that passed maxRetries = 1 and baseDelay = 500 has a
\* target rejected after four Transient failures, the first wait 1000 ms.
C18_Witness ==
    /\ args = << 1, 500 >>
    /\ \E t \in Targets :
          /\ Exhausted(t) /\ invocations[t] = 4 /\ waits[t][1] = 1000
          /\ Settled(t)

\* The required fields that the request lacks, each with its key.
Missing ==
    UNION {{<< key, f >> : f \in schema[key] \ req[key]} : key \in Range(Keys)}

\* C19: once the middleware has called next, it has called next(err) with
\* statusCode 400 and code VALIDATION_ERROR if the request lacks a required
\* field, and the route handler does not run; it has called next() without
\* an error only if no required field is missing.
C19_ValidationShortCircuits ==
    (nextCall.how # "pending") =>
        /\ (Missing # {}) =>
              /\ nextCall.how = "error"
              /\ nextCall.statusCode = 400
              /\ nextCall.code = "VALIDATION_ERROR"
              /\ ~handlerRan
        /\ (nextCall.how = "next") => Missing = {}

\* C20 as stated: with limit < 1 a run over a non-empty target list
\* deadlocks: it never resolves.
C20_BadLimitNeverResolves == (limit < 1 /\ Len(urls) >= 1) => pc # "done"

\* C20 as amended: with limit < 1 the dispatcher never waits on an empty
\* active set (a race it awaits is over the promise it has just pushed), and
\* under fairness the run resolves.
C20_BadLimitRunsAndResolves ==
    /\ []((limit < 1 /\ pc = "race") => (awaited # << >> /\ awaited[Len(awaited)] = idx))
    /\ (limit < 1) ~> (pc = "done")

\* C20 witness: a run of three targets with limit < 1 has resolved with
\* three outcomes.
C20_Witness == limit < 1 /\ pc = "done" /\ Len(urls) = 3 /\ Len(results) = 3

\* The value or the message that the k-th operation call of t gave.
Payload(t, k) == MockFetch(urls[t], attempts[t][k]).payload

\* C21: once a call of a target's operation has succeeded it is the
\* target's last call (the operation is not called again and no backoff wait
\* follows it), the executor is fulfilled with the value that call returned,
\* and the entry recorded for the target carries that value unchanged.
C21_SuccessEndsTheAttempts ==
    \A t \in Targets : \A k \in 1..Len(attempts[t]) :
        Succeeded(attempts[t][k]) =>
            /\ k = Len(attempts[t])
            /\ invocations[t] = k
            /\ Len(waits[t]) = k - 1
            /\ phase[t] = "fulfilled"
            /\ outcome[t] = Payload(t, k)
            /\ \A j \in EntriesOf(t) :
                  results[j] = [status |-> "fulfilled", value |-> Payload(t, k)]
            /\ Settled(t) => EntriesOf(t) # {}

\* C21 witness: a target succeeded on its second call, after one backoff
\* wait, its value is recorded, and the run went on and resolved.
C21_Witness ==
    /\ pc = "done"
    /\ \E t \in Targets :
          /\ Len(attempts[t]) = 2 /\ Succeeded(attempts[t][2])
          /\ \E j \in EntriesOf(t) : results[j].value = ResponseData(urls[t])

\* C22: a Permanent failure of any call of a target, the first or one that
\* follows Transient failures while retries remain, is the target's last
\* call: the executor is rejected at once, with no backoff wait and no
\* further call after it, the remaining retries left unspent.
C22_PermanentSettlesAtOnce ==
    \A t \in Targets : \A k \in 1..Len(attempts[t]) :
        Permanent(attempts[t][k]) =>
            /\ k = Len(attempts[t])
            /\ invocations[t] = k
            /\ Len(waits[t]) = k - 1
            /\ phase[t] = "rejected"
            /\ retries[t] = DefaultRetries - (k - 1)
            /\ Settled(t) => \E j \in EntriesOf(t) : results[j].status = "rejected"

\* C22 witness: a target failed Transient, waited, then failed Permanent
\* with two retries left, and its rejection is recorded.
C22_Witness ==
    \E t \in Targets :
        /\ Len(attempts[t]) = 2
        /\ Transient(attempts[t][1]) /\ Permanent(attempts[t][2])
        /\ retries[t] = 2 /\ Settled(t)
        /\ \E j \in EntriesOf(t) : results[j].status = "rejected"

\* The calls of t that failed Transient while retries remained.
RetriedFailures(t) ==
    {k \in 1..Len(attempts[t]) : Transient(attempts[t][k]) /\ k <= DefaultRetries}

\* C23: each Transient failure that finds retries left costs one retry and
\* is followed by one backoff wait and then one new call: a started target
\* has waited once for each such failure, has been called once more than it
\* has finished waiting, and has spent one retry for each call after the
\* first.  A wait begins only at such a failure (never before the first
\* call, never at the failure that finds no retries left), and a new call
\* is made only when a wait ends.
C23_OneWaitAndOneCallPerRetry ==
    /\ [](\A t \in Targets :
             /\ Len(waits[t]) = Cardinality(RetriedFailures(t))
             /\ phase[t] = "idle" => invocations[t] = 0 /\ waits[t] = << >>
             /\ phase[t] # "idle" =>
                   /\ invocations[t] = Len(waits[t]) + (IF phase[t] = "wait" THEN 0 ELSE 1)
                   /\ retries[t] = DefaultRetries - (invocations[t] - 1)
                   /\ retries[t] >= 0)
    /\ [][\A t \in Targets :
             /\ waits'[t] # waits[t] =>
                   /\ phase[t] = "fetch" /\ phase'[t] = "wait"
                   /\ retries[t] > 0
                   /\ Len(waits'[t]) = Len(waits[t]) + 1
                   /\ Transient(attempts'[t][Len(attempts'[t])])
             /\ (phase[t] # "idle" /\ invocations'[t] # invocations[t]) =>
                   /\ phase[t] = "wait" /\ phase'[t] = "fetch"
                   /\ invocations'[t] = invocations[t] + 1
                   /\ retries'[t] = retries[t] - 1]_vars

\* C23 witness: a target has failed Transient four times: it waited after
\* the first three failures and not after the fourth, which found no
\* retries left.
C23_Witness ==
    \E t \in Targets :
        /\ Len(attempts[t]) = 4 /\ FirstTransient(t, 4)
        /\ Len(waits[t]) = 3 /\ invocations[t] = 4 /\ retries[t] = 0
        /\ phase[t] = "rejected"

\* The dispatcher's resumption is in the microtask queue.
ResumeQueued == \E i \in 1..Len(microtasks) : microtasks[i].kind = "resume"

\* C24: a dispatcher suspended at the limit is resumed by the settlement of
\* any of the promises it waits on, not only of the one it has just pushed:
\* as soon as one of them has settled its resumption is queued, and it is
\* queued for no other cause.
C24_ResumesOnAnySettlement ==
    (pc = "race") =>
        /\ (\E t \in Range(awaited) : Settled(t)) <=> ResumeQueued
        /\ awaited # << >> /\ awaited[Len(awaited)] = idx

\* C24 witness: with limit 2 and three targets, the first target settled
\* while the second, the one just started, was still active, and the third
\* was started at once.
C24_Witness ==
    /\ limit = 2 /\ Len(urls) = 3
    /\ Settled(1) /\ p[2] = "pending" /\ phase[2] \in {"fetch", "wait"}
    /\ phase[3] = "fetch" /\ executing = << 2, 3 >>

\* The targets whose promise p was created and has not settled.
Active == {t \in Targets : p[t] = "pending"}

\* C25: the executing array holds, once each, exactly the promises that were
\* started and have not settled.  It gains an entry only in the step that
\* starts the entry's target and loses one only in the step that settles
\* that entry's promise; a target whose executor is still calling or waiting
\* is in it.
C25_ActiveSetIsStartedUnsettled ==
    /\ [](/\ Range(executing) = Active
          /\ Len(executing) = Cardinality(Active)
          /\ Unsettled \subseteq Range(executing))
    /\ [][\A t \in Targets :
             /\ (t \in Range(executing') /\ t \notin Range(executing)) =>
                   /\ phase[t] = "idle" /\ phase'[t] = "fetch"
                   /\ executing' = Append(executing, t)
             /\ (t \in Range(executing) /\ t \notin Range(executing')) =>
                   /\ p[t] = "pending" /\ p'[t] \in {"fulfilled", "rejected"}
                   /\ Len(executing') = Len(executing) - 1
                   /\ \A u \in Range(executing) \ {t} : u \in Range(executing')]_vars

\* C25 witness: of three targets with limit 2 the second has settled and
\* been removed while the first, before it in the array, stays, and the
\* third has been added behind it.
C25_Witness ==
    /\ limit = 2 /\ Len(urls) = 3
    /\ executing = << 1, 3 >> /\ Settled(2) /\ Active = {1, 3}
    /\ phase[1] = "wait"

\* A step that starts a target.
Starts == \E t \in Targets : phase[t] = "idle" /\ phase'[t] # "idle"

\* C26: with limit >= 1, the executing array holds exactly limit promises
\* whenever the dispatcher suspends at Promise.race; while it is suspended
\* there the array falls below limit only by the settlement of one of its
\* promises, it holds one promise less when the dispatcher is resumed, and
\* no target is started while it holds limit promises or more.
C26_SuspendsAtExactlyLimit ==
    /\ []((limit >= 1 /\ pc = "race") =>
             /\ Len(executing) \in {limit - 1, limit}
             /\ Len(executing) = limit <=> ~ResumeQueued)
    /\ [][(limit >= 1) =>
             /\ (pc = "loop" /\ pc' = "race") => Len(executing') = limit
             /\ (pc = "race" /\ Len(executing') < Len(executing)) =>
                   /\ Len(executing) = limit
                   /\ \E t \in Range(executing) :
                         /\ p[t] = "pending" /\ p'[t] \in {"fulfilled", "rejected"}
                         /\ t \notin Range(executing')
             /\ (pc = "race" /\ pc' = "loop") => Len(executing) = limit - 1
             /\ Starts => Len(executing) < limit /\ pc = "loop"]_vars

\* C26 witness: with limit 2 and three targets the dispatcher is suspended
\* for the second time, two promises active, after the array fell to one
\* promise by the settlement of the first target.
C26_Witness ==
    /\ limit = 2 /\ Len(urls) = 3
    /\ pc = "race" /\ idx = 3 /\ executing = << 2, 3 >> /\ Settled(1)
    /\ ~ResumeQueued

\* A step of a retry executor: an operation call of a started target
\* finishes, a backoff wait begins, or a backoff wait ends and the
\* operation is called again.
ExecutorStep ==
    \E t \in Targets :
        /\ phase[t] # "idle"
        /\ \/ attempts'[t] # attempts[t]
           \/ waits'[t] # waits[t]
           \/ invocations'[t] # invocations[t]
           \/ phase'[t] # phase[t]

\* The callback at the head of the microtask queue.
Running(kinds) == microtasks # << >> /\ Head(microtasks).kind \in kinds

\* C27: no step of a retry executor changes the executing array or the
\* results array.  executing changes only in the dispatcher's start step and
\* in a .finally callback, results only in a .then or a .catch callback.
C27_ExecutorLeavesSetsAlone ==
    [][/\ ExecutorStep => (executing' = executing /\ results' = results)
       /\ executing' # executing =>
             \/ pc = "loop" /\ Starts
             \/ pc # "loop" /\ Running({"finally"})
       /\ results' # results => (pc # "loop" /\ Running({"then", "catch"}))]_vars

\* C27 witness: a target has gone through three backoff waits and four
\* calls and is still in the executing array, while the outcome of another
\* target is the only entry of results.
C27_Witness ==
    /\ Len(urls) >= 2
    /\ invocations[1] = 4 /\ Len(waits[1]) = 3 /\ phase[1] = "fetch"
    /\ 1 \in Range(executing)
    /\ Len(results) = 1 /\ EntriesOf(2) = {1}

\* C28: the reason of a rejected target is the message of its last failed
\* call wrapped once: the final-failure text, the target's url, a colon and
\* that message itself, the 503 or the 404 text, however many retries came
\* before; the entry recorded for the target carries this reason.
C28_ReasonWrappedOnce ==
    \A t \in Targets :
        (phase[t] = "rejected") =>
            LET last == Payload(t, Len(attempts[t])) IN
            /\ last \in {Msg503, Msg404}
            /\ outcome[t] = << "Final Failure for ", urls[t], ": ", last >>
            /\ outcome[t][4] \in {Msg503, Msg404}
            /\ \A j \in EntriesOf(t) :
                  results[j] = [status |-> "rejected", reason |-> outcome[t]]
            /\ Settled(t) => EntriesOf(t) # {}

\* C28 witness: one target was rejected after three retries, its reason
\* wrapping the 503 message, and another after one retry, its reason
\* wrapping the 404 message of its second call, not the 503 of its first;
\* both reasons are recorded.
C28_Witness ==
    \E t, u \in Targets :
        /\ Exhausted(t) /\ Len(waits[t]) = 3 /\ Settled(t)
        /\ \E j \in EntriesOf(t) : results[j].reason[4] = Msg503
        /\ phase[u] = "rejected" /\ Len(attempts[u]) = 2 /\ Transient(attempts[u][1])
        /\ \E j \in EntriesOf(u) : results[j].reason[4] = Msg404

\* The targets whose retry executor has settled and whose outcome is not
\* yet in results.
Unrecorded == {t \in Targets : ExecutorSettled(t) /\ EntriesOf(t) = {}}

\* C29: results is in settlement order, whatever the input order: when a
\* target settles, the outcome of every target that settled before it is
\* already in results, and the outcome of a target is put behind all the
\* entries that results holds by then.
C29_ResultsInSettlementOrder ==
    /\ [](Cardinality(Unrecorded) <= 1)
    /\ [][/\ \A t \in Targets :
                (~ExecutorSettled(t) /\ ExecutorSettled(t)') =>
                    \A u \in Targets \ {t} : ExecutorSettled(u) => EntriesOf(u) # {}
          /\ results' # results =>
                \E t \in Unrecorded :
                    /\ results' = Append(results, results'[Len(results')])
                    /\ EntryUrl(results'[Len(results')]) = urls[t]]_vars

\* C29 witness: three targets with limit 2 settled in the order second,
\* third, first, and the returned results lists them in that order.
C29_Witness ==
    /\ pc = "done" /\ limit = 2 /\ Len(urls) = 3 /\ Len(results) = 3
    /\ EntryUrl(results[1]) = urls[2]
    /\ EntryUrl(results[2]) = urls[3]
    /\ EntryUrl(results[3]) = urls[1]

\* C30: the outcome of a target is pushed to results before its promise is
\* taken out of executing: every started target is in executing or has its
\* outcome in results, so that once every target has been started an empty
\* executing array means that results holds all N outcomes.
C30_RecordedBeforeRemoved ==
    /\ \A t \in Targets :
          (phase[t] # "idle") => (t \in Range(executing) \/ EntriesOf(t) # {})
    /\ ((\A t \in Targets : phase[t] # "idle") /\ executing = << >>) =>
          /\ Len(results) = Len(urls)
          /\ \A t \in Targets : EntriesOf(t) # {}

\* C30 witness: the last of three targets has its outcome recorded and is
\* still in the executing array, its .finally callback the next to run.
C30_Witness ==
    /\ Len(urls) = 3 /\ Len(results) = 3
    /\ executing = << 3 >> /\ EntriesOf(3) = {3}
    /\ Running({"finally"})

\* The targets waiting in backoff between two calls.
InBackoff == {t \in Targets : phase[t] = "wait"}

\* The targets with an operation call in progress.
InCall == {t \in Targets : phase[t] = "fetch"}

\* C31: a target waiting in backoff keeps its place in the executing array
\* and counts toward the limit during the whole wait: with limit >= 1 the
\* calls in progress and the targets in backoff together never exceed the
\* limit, when limit targets are in backoff the dispatcher is suspended and
\* not about to be resumed, and no step starts a target or takes a waiting
\* target out of the array.
C31_BackoffKeepsItsSlot ==
    /\ []((limit >= 1) =>
             /\ InBackoff \subseteq Range(executing)
             /\ \A t \in InBackoff : p[t] = "pending"
             /\ Cardinality(InCall) + Cardinality(InBackoff) <= limit
             /\ Cardinality(InBackoff) = limit =>
                   (pc \in {"race", "all"} /\ ~ResumeQueued))
    /\ [][(limit >= 1) =>
             /\ (Cardinality(InBackoff) = limit) => ~Starts
             /\ \A t \in InBackoff : t \in Range(executing')]_vars

\* C31 witness: with limit 2 and three targets both active targets are in
\* backoff, the dispatcher is suspended and the third target is not started.
C31_Witness ==
    /\ limit = 2 /\ Len(urls) = 3
    /\ InBackoff = {1, 2} /\ executing = << 1, 2 >>
    /\ pc = "race" /\ phase[3] = "idle"

\* C32: with limit <= 0 the dispatcher does what it does with limit 1.  The
\* limit is read only by the test after the push, which gives for it what
\* it gives for 1; so the first target is started, one promise is active
\* (more than the limit allows), the targets run strictly one after another
\* in input order, and under fairness the run resolves with N outcomes.
C32_BadLimitActsAsLimitOne ==
    /\ []((limit <= 0) =>
             /\ Len(executing) <= 1
             /\ Cardinality(InCall) + Cardinality(InBackoff) <= 1
             /\ pc = "race" =>
                   \/ executing = << idx >> /\ ~ResumeQueued
                   \/ executing = << >> /\ ResumeQueued /\ Settled(idx)
             /\ \A t \in Targets : (phase[t] # "idle" /\ t > 1) => Settled(t - 1)
             /\ pc = "done" => Len(results) = Len(urls))
    /\ [][(limit <= 0 /\ Starts) =>
             /\ AtLimit(Len(executing'), limit) <=> AtLimit(Len(executing'), 1)
             /\ executing = << >> /\ Len(executing') > limit
             /\ pc' = "race"]_vars
    /\ (limit <= 0) ~> (pc = "done" /\ Len(results) = Len(urls))

\* C32 witness: with limit 0 or less the second of three targets is the
\* only active one, the first having settled and the third not started.
C32_Witness ==
    /\ limit <= 0 /\ Len(urls) = 3
    /\ Settled(1) /\ executing = << 2 >> /\ phase[2] = "fetch" /\ phase[3] = "idle"
    /\ Len(executing) > limit

\* C33: the retries and the delay belong to one target.  A target is
\* started with DefaultRetries and DefaultDelay whatever the targets before
\* it went through, its delay is DefaultDelay doubled once for each retry it
\* has spent, and a step that changes the retries or the delay of one
\* target is that target's own start or recursive call and leaves those of
\* every other target as they were.
C33_RetryStateIsPerTarget ==
    /\ [](\A t \in Targets :
             (phase[t] # "idle") =>
                 /\ retries[t] = DefaultRetries - Len(waits[t])
                       + (IF phase[t] = "wait" THEN 1 ELSE 0)
                 /\ delay[t] = DefaultDelay * 2 ^ (DefaultRetries - retries[t]))
    /\ [][\A t \in Targets :
             /\ (phase[t] = "idle" /\ phase'[t] # "idle") =>
                   retries'[t] = DefaultRetries /\ delay'[t] = DefaultDelay
             /\ (retries'[t] # retries[t] \/ delay'[t] # delay[t]) =>
                   /\ phase[t] \in {"idle", "wait"} /\ phase'[t] = "fetch"
                   /\ \A u \in Targets \ {t} :
                         retries'[u] = retries[u] /\ delay'[u] = delay[u]
             /\ (phase'[t] # phase[t] \/ attempts'[t] # attempts[t]) =>
                   \A u \in Targets \ {t} :
                       /\ retries'[u] = retries[u] /\ delay'[u] = delay[u]
                       /\ phase'[u] = phase[u] /\ waits'[u] = waits[u]]_vars

\* C33 witness: the first target has spent all its retries and reached a
\* delay of 8000 ms, and the second, started after that, has all three
\* retries and the delay of 1000 ms.
C33_Witness ==
    /\ Len(urls) >= 2
    /\ retries[1] = 0 /\ delay[1] = 8000 /\ Len(attempts[1]) = 4
    /\ phase[2] = "fetch" /\ invocations[2] = 1
    /\ retries[2] = DefaultRetries /\ delay[2] = DefaultDelay

\* C34: a run over an empty list, whatever its limit (zero and negative
\* limits included), starts nothing, never suspends at a race, waits for no
\* timer (its Promise.all over the empty array is fulfilled at once, the
\* resumption queued in the same step), and under fairness resolves with an
\* empty results array.
C34_EmptyListResolvesEmpty ==
    /\ []((Len(urls) = 0) =>
             /\ results = << >> /\ executing = << >> /\ invocations = << >>
             /\ pc \in {"loop", "all", "done"}
             /\ pc = "all" => ResumeQueued)
    /\ (Len(urls) = 0) ~> (pc = "done" /\ results = << >>)

\* C34 witness: a run over the empty list with a negative limit has
\* resolved with no entries.
C34_Witness == Len(urls) = 0 /\ limit < 0 /\ pc = "done" /\ results = << >>

\* The calls of func made for the k-th call to the wrapper.
InvocationsOf(k) == {i \in 1..Len(invoked) : invoked[i].call = k}

\* The timers pending for the k-th call to the wrapper.
PendingFor(k) == {tm \in timeouts : tm.call = k}

\* The k-th call is followed by another less than span ticks later: the two
\* are of one burst.
BurstGoesOn(k) == k < Len(called) /\ called[k + 1].at - called[k].at < span

\* The k-th call is the last of a burst that is over: a later call was made
\* span ticks or more after it.
BurstOver(k) == k < Len(called) /\ called[k + 1].at - called[k].at >= span

\* func is called only span ticks or more after the most recent call to the
\* debounced function, with the arguments of that call.
InvokedAfterQuiet ==
    \A i \in 1..Len(invoked) :
        /\ invoked[i].call = invoked[i].seen
        /\ invoked[i].at - called[invoked[i].call].at >= span
        /\ invoked[i].args = called[invoked[i].call].args

\* C35 as stated: func is called only when delay has gone by since the most
\* recent call, and each burst of calls spaced less than delay apart yields
\* exactly one call of func, for the last call of the burst: none for a
\* call that another follows within the delay, one for the last call of a
\* burst that is over.
C35_EachBurstInvokesOnce ==
    /\ InvokedAfterQuiet
    /\ \A k \in 1..Len(called) :
          /\ BurstGoesOn(k) => InvocationsOf(k) = {}
          /\ BurstOver(k) => Cardinality(InvocationsOf(k)) = 1
          /\ Cardinality(InvocationsOf(k)) <= 1

\* C35 as amended: func is called only when delay has gone by since the
\* most recent call, with that call's arguments.  A call cancels the pending
\* timer of the call before it, whenever it is made before that timer has
\* run, also delay or more after that call: only the last call has a timer,
\* func is called at most once for a call and never for a call that another
\* follows within the delay, it was called for an earlier call only before
\* the next call was made, and for the last call either the timer is
\* pending or func has been called.
C35_InvokedOnceUnlessCancelled ==
    /\ InvokedAfterQuiet
    /\ \A tm \in timeouts :
          /\ tm.call = Len(called) /\ tm.id = timerId
          /\ tm.due = called[tm.call].at + span
    /\ \A k \in 1..Len(called) :
          /\ BurstGoesOn(k) => InvocationsOf(k) = {}
          /\ Cardinality(InvocationsOf(k)) <= 1
          /\ k < Len(called) => PendingFor(k) = {}
          /\ k = Len(called) =>
                Cardinality(InvocationsOf(k)) + Cardinality(PendingFor(k)) = 1

\* C35 witness: of three calls the first two were one burst and the third
\* came delay or more after the second, before the timer of the second had
\* run; func was called once, for the third call and with its arguments.
C35_Witness ==
    /\ Len(called) = 3 /\ BurstGoesOn(1) /\ BurstOver(2)
    /\ Len(invoked) = 1 /\ invoked[1].call = 3
    /\ invoked[1].args = called[3].args /\ called[3].args # called[2].args

\* The call of func made most recently before the k-th call to the wrapper,
\* or at it; 0 when there is none.
LastInvocationBy(k) ==
    IF \E i \in 1..Len(invoked) : invoked[i].call <= k
    THEN CHOOSE i \in 1..Len(invoked) :
            /\ invoked[i].call <= k
            /\ \A j \in 1..Len(invoked) : invoked[j].call <= k => j <= i
    ELSE 0

\* func was called for the k-th call to the wrapper, at once and with its
\* arguments.
InvokedAtOnce(k) ==
    \E i \in InvocationsOf(k) :
        /\ invoked[i].at = called[k].at
        /\ invoked[i].args = called[k].args
        /\ invoked[i].seen = k

\* The k-th call was made inside the window of length span that the call of
\* func before it opened.
InsideWindow(k) ==
    /\ LastInvocationBy(k - 1) # 0
    /\ called[k].at - invoked[LastInvocationBy(k - 1)].at < span

\* Any two calls of func are span ticks or more apart.
InvocationsApart ==
    \A i, j \in 1..Len(invoked) :
        i < j => invoked[j].at - invoked[i].at >= span

\* C36 as stated: a call made outside a window invokes func at once and
\* opens a window of length limit, a call made inside the window is dropped
\* and never invoked later, and so any two calls of func are limit or more
\* apart.
C36_WindowOfLengthLimit ==
    /\ \A k \in 1..Len(called) :
          /\ ~InsideWindow(k) => InvokedAtOnce(k)
          /\ InsideWindow(k) => InvocationsOf(k) = {}
          /\ Cardinality(InvocationsOf(k)) <= 1
    /\ InvocationsApart

\* C36 as amended: a call made while inThrottle is not set invokes func at
\* once and opens a window that lasts until its timer has run, which is
\* limit or more; every call made inside an open window, also one made
\* limit or more after the window was opened, is dropped and never invoked
\* later; any two calls of func are limit or more apart.
C36_WindowUntilTimerRuns ==
    /\ [](/\ \A k \in 1..Len(called) :
                /\ InsideWindow(k) => InvocationsOf(k) = {}
                /\ InvocationsOf(k) # {} => InvokedAtOnce(k)
                /\ Cardinality(InvocationsOf(k)) <= 1
          /\ InvocationsApart
          /\ Not(inThrottle) <=> timeouts = {}
          /\ \A tm \in timeouts :
                /\ tm.call = invoked[Len(invoked)].call
                /\ tm.due = invoked[Len(invoked)].at + span)
    /\ [][/\ Len(called') > Len(called) =>
                (Not(inThrottle) <=> Len(invoked') = Len(invoked) + 1)
          /\ Len(invoked') > Len(invoked) => Len(called') > Len(called)
          /\ (inThrottle = "true" /\ inThrottle' # "true") =>
                now - invoked[Len(invoked)].at >= span]_vars

\* C36 witness: of three calls the first invoked func, the second, inside
\* the window, was dropped, and the third, made after the timer had run,
\* invoked func again, limit or more after the first.
C36_Witness ==
    /\ Len(called) = 3 /\ Len(invoked) = 2
    /\ InvokedAtOnce(1) /\ InsideWindow(2) /\ InvocationsOf(2) = {} /\ InvokedAtOnce(3)
    /\ invoked[2].at - invoked[1].at >= span
    /\ called[2].args # called[1].args

====
